---- MODULE Spec2Model ----
(***************************************************************************)
(* Model of the papyrus lexer (papyrus-lib/src/lib.rs): the tag grammar    *)
(* Tag::from_str and the pull-based TokenIter over a Peekable<Chars>.      *)
(*                                                                         *)
(* A string is a sequence of characters; a character is a one-element      *)
(* TLA+ string, except the non-ASCII decimal digit U+0663, written         *)
(* "U+0663".  An identifier (usize) is a canonical decimal numeral: a      *)
(* sequence of digits 0..9 without leading zero, <<0>> for zero, because   *)
(* usize::MAX does not fit the model checker's integers.                   *)
(***************************************************************************)
EXTENDS Integers, Sequences, FiniteSets, TLC

\* ------------------------------------------------------------------------
\* Bounds of the model
\* ------------------------------------------------------------------------
MaxChunks == 4
MaxEndCalls == 2

\* ------------------------------------------------------------------------
\* Characters and literals
\* ------------------------------------------------------------------------
NL == "\n"
LB == "["
RB == "]"
ArabicThree == "U+0663"

AsciiDigits == <<"0", "1", "2", "3", "4", "5", "6", "7", "8", "9">>

\* regex class \d (Unicode decimal digits: the ASCII ones and more)
IsDigit(c) == c \in {AsciiDigits[i] : i \in 1..10} \cup {ArabicThree}

\* regex class \s (Unicode white space)
IsWhitespace(c) == c \in {" ", NL, "\t"}

\* char::to_digit(10): the digit value, or -1 for None
to_digit(c) ==
    IF \E i \in 1..10 : AsciiDigits[i] = c
    THEN (CHOOSE i \in 1..10 : AsciiDigits[i] = c) - 1
    ELSE -1

UserLit == <<"u", "s", "e", "r", ":">>
ArticleLit == <<"a", "r", "t", "i", "c", "l", "e", ":">>

\* usize::MAX on a 64-bit target, 18446744073709551615, as a numeral
UsizeMax == <<1, 8, 4, 4, 6, 7, 4, 4, 0, 7, 3, 7, 0, 9, 5, 5, 1, 6, 1, 5>>

\* The one element of a singleton set.  Eager({ F(x) : x \in {e} }) is F(e)
\* with e evaluated once, however often F uses x.
Eager(S) == CHOOSE x \in S : TRUE

\* ------------------------------------------------------------------------
\* Numerals: comparison, parsing (str::parse::<usize>) and Display
\* ------------------------------------------------------------------------
RECURSIVE LexLess(_, _, _)
LexLess(a, b, i) ==
    IF i > Len(a) THEN FALSE
    ELSE IF a[i] # b[i] THEN a[i] < b[i]
    ELSE LexLess(a, b, i + 1)

\* NumGT with the bound itself rejected: a >= b
NumGE(a, b) ==
    IF Len(a) # Len(b) THEN Len(a) > Len(b) ELSE ~LexLess(a, b, 1)

\* a > b for canonical numerals
NumGT(a, b) ==
    IF Len(a) # Len(b) THEN Len(a) > Len(b) ELSE LexLess(b, a, 1)

\* acc * 10 + d on canonical numerals
MulAdd(acc, d) == IF acc = <<0>> THEN <<d>> ELSE Append(acc, d)

\* ParseLoop with saturating arithmetic: an overflow clamps to usize::MAX
RECURSIVE ParseLoopSaturating(_, _, _)
ParseLoopSaturating(digits, i, acc) ==
    IF i > Len(digits) THEN [ok |-> TRUE, id |-> acc]
    ELSE IF to_digit(digits[i]) < 0
         THEN [ok |-> FALSE, cause |-> "InvalidDigit"]
    ELSE Eager({ IF NumGT(v, UsizeMax)
                 THEN ParseLoopSaturating(digits, i + 1, UsizeMax)
                 ELSE ParseLoopSaturating(digits, i + 1, v) :
                 v \in {MulAdd(acc, to_digit(digits[i]))} })

\* The digit loop of usize::from_str: checked_mul(10) then checked_add(d),
\* left to right; a character that is no ASCII digit is InvalidDigit.
RECURSIVE ParseLoop(_, _, _)
ParseLoop(digits, i, acc) ==
    IF i > Len(digits) THEN [ok |-> TRUE, id |-> acc]
    ELSE IF to_digit(digits[i]) < 0
         THEN [ok |-> FALSE, cause |-> "InvalidDigit"]
    ELSE Eager({ IF NumGT(v, UsizeMax)
                 THEN [ok |-> FALSE, cause |-> "PosOverflow"]
                 ELSE ParseLoop(digits, i + 1, v) :
                 v \in {MulAdd(acc, to_digit(digits[i]))} })

ParseUsize(digits) ==
    IF digits = <<>> THEN [ok |-> FALSE, cause |-> "Empty"]
    ELSE ParseLoop(digits, 1, <<0>>)

\* Display of a usize: its decimal digits as characters
to_string(id) == [i \in 1..Len(id) |-> AsciiDigits[id[i] + 1]]

\* ------------------------------------------------------------------------
\* Tag grammar: the unanchored patterns  user:\s*(?P<id>\d+)  and
\* article:\s*(?P<id>\d+)
\* ------------------------------------------------------------------------
RECURSIVE SkipWhile(_, _, _)
\* first index >= i of s whose character is not in the class (Len(s)+1 if none)
SkipWhile(s, i, isWs) ==
    IF i > Len(s) THEN i
    ELSE IF (IF isWs THEN IsWhitespace(s[i]) ELSE IsDigit(s[i]))
         THEN SkipWhile(s, i + 1, isWs)
    ELSE i

\* MatchAt for the pattern lit \d+, without the optional white space
MatchAtNoSpace(lit, s, i) ==
    /\ i + Len(lit) - 1 <= Len(s)
    /\ SubSeq(s, i, i + Len(lit) - 1) = lit
    /\ i + Len(lit) <= Len(s)
    /\ IsDigit(s[i + Len(lit)])

\* the pattern lit \s* \d+ matches s starting at index i
MatchAt(lit, s, i) ==
    /\ i + Len(lit) - 1 <= Len(s)
    /\ SubSeq(s, i, i + Len(lit) - 1) = lit
    /\ LET j == SkipWhile(s, i + Len(lit), TRUE)
       IN  j <= Len(s) /\ IsDigit(s[j])

\* Regex::captures: the leftmost match; \s* and \d+ are greedy
Captures(lit, s) ==
    IF \E i \in 1..Len(s) : MatchAt(lit, s, i)
    THEN LET i == CHOOSE k \in 1..Len(s) :
                      /\ MatchAt(lit, s, k)
                      /\ \A m \in 1..(k - 1) : ~MatchAt(lit, s, m)
             j == SkipWhile(s, i + Len(lit), TRUE)
         IN  [matched |-> TRUE, id |-> SubSeq(s, j, SkipWhile(s, j, FALSE) - 1)]
    ELSE [matched |-> FALSE]

TagOf(kind, digits) ==
    LET p == ParseUsize(digits)
    IN  IF p.ok
        THEN [ok |-> TRUE, tag |-> [kind |-> kind, id |-> p.id]]
        ELSE [ok |-> FALSE,
              err |-> [kind |-> "CaptureParseErr", cause |-> p.cause]]

\* from_str whose UnknownTag carries the body without brackets
from_strBare(s) ==
    Eager({ IF u.matched THEN TagOf("User", u.id)
            ELSE Eager({ IF a.matched THEN TagOf("Article", a.id)
                         ELSE [ok |-> FALSE,
                               err |-> [kind |-> "UnknownTag", payload |-> s]] :
                         a \in {Captures(ArticleLit, s)} }) :
            u \in {Captures(UserLit, s)} })

\* from_str that tries the article pattern before the user pattern
from_strArticleFirst(s) ==
    Eager({ IF a.matched THEN TagOf("Article", a.id)
            ELSE Eager({ IF u.matched THEN TagOf("User", u.id)
                         ELSE [ok |-> FALSE,
                               err |-> [kind |-> "UnknownTag",
                                        payload |-> <<LB>> \o s \o <<RB>>]] :
                         u \in {Captures(UserLit, s)} }) :
            a \in {Captures(ArticleLit, s)} })

\* impl FromStr for Tag
from_str(s) ==
    Eager({ IF u.matched THEN TagOf("User", u.id)
            ELSE Eager({ IF a.matched THEN TagOf("Article", a.id)
                         ELSE [ok |-> FALSE,
                               err |-> [kind |-> "UnknownTag",
                                        payload |-> <<LB>> \o s \o <<RB>>]] :
                         a \in {Captures(ArticleLit, s)} }) :
            u \in {Captures(UserLit, s)} })

\* ------------------------------------------------------------------------
\* The input text and Peekable<Chars>
\* ------------------------------------------------------------------------
\* An input is the block inp.text repeated inp.reps times (str::repeat).
InLen(inp) == Len(inp.text) * inp.reps

CharAt(inp, i) == inp.text[((i - 1) % Len(inp.text)) + 1]

\* Option<char>::None
NoChar == ""

\* u16::MAX, the largest value of Position.line
U16Max == 65535

\* Peekable state pk: pos = characters pulled from Chars so far;
\* peeked = "None", "SomeNone" (peeked at the end) or "SomeChar" (the
\* character at index pos was pulled by peek and not yet taken).

\* PkNext over a character source that starts over once it is exhausted
PkNextRestart(inp, pk) ==
    IF pk.peeked = "SomeChar"
    THEN [c |-> CharAt(inp, pk.pos), pos |-> pk.pos, peeked |-> "None"]
    ELSE IF pk.peeked = "SomeNone"
    THEN [c |-> NoChar, pos |-> pk.pos, peeked |-> "None"]
    ELSE IF pk.pos < InLen(inp)
    THEN [c |-> CharAt(inp, pk.pos + 1), pos |-> pk.pos + 1, peeked |-> "None"]
    ELSE [c |-> NoChar, pos |-> 0, peeked |-> "None"]

\* Peekable::next
PkNext(inp, pk) ==
    IF pk.peeked = "SomeChar"
    THEN [c |-> CharAt(inp, pk.pos), pos |-> pk.pos, peeked |-> "None"]
    ELSE IF pk.peeked = "SomeNone"
    THEN [c |-> NoChar, pos |-> pk.pos, peeked |-> "None"]
    ELSE IF pk.pos < InLen(inp)
    THEN [c |-> CharAt(inp, pk.pos + 1), pos |-> pk.pos + 1, peeked |-> "None"]
    ELSE [c |-> NoChar, pos |-> pk.pos, peeked |-> "None"]

\* PkPeek that takes the character instead of keeping it in the peeked slot
PkPeekTaking(inp, pk) ==
    IF pk.peeked = "SomeChar"
    THEN [c |-> CharAt(inp, pk.pos), pos |-> pk.pos, peeked |-> "None"]
    ELSE IF pk.peeked = "SomeNone"
    THEN [c |-> NoChar, pos |-> pk.pos, peeked |-> "None"]
    ELSE IF pk.pos < InLen(inp)
    THEN [c |-> CharAt(inp, pk.pos + 1), pos |-> pk.pos + 1, peeked |-> "None"]
    ELSE [c |-> NoChar, pos |-> pk.pos, peeked |-> "None"]

\* Peekable::peek
PkPeek(inp, pk) ==
    IF pk.peeked = "SomeChar"
    THEN [c |-> CharAt(inp, pk.pos), pos |-> pk.pos, peeked |-> "SomeChar"]
    ELSE IF pk.peeked = "SomeNone"
    THEN [c |-> NoChar, pos |-> pk.pos, peeked |-> "SomeNone"]
    ELSE IF pk.pos < InLen(inp)
    THEN [c |-> CharAt(inp, pk.pos + 1), pos |-> pk.pos + 1, peeked |-> "SomeChar"]
    ELSE [c |-> NoChar, pos |-> pk.pos, peeked |-> "SomeNone"]

\* characters the lexer has taken: a peeked character is not taken yet
Cursor(pk) == IF pk.peeked = "SomeChar" THEN pk.pos - 1 ELSE pk.pos

\* .take_while(|p| *p != ']').collect::<String>() on the Peekable: the
\* character that ends the run is taken and dropped
RECURSIVE TakeBody(_, _, _)
TakeBody(inp, pk, body) ==
    Eager({ IF n.c = NoChar \/ n.c = RB
            THEN [body |-> body, pos |-> n.pos, peeked |-> n.peeked]
            ELSE TakeBody(inp, n, Append(body, n.c)) :
            n \in {PkNext(inp, pk)} })

\* TextRun that also ends the run before a newline
RECURSIVE TextRunToNewline(_, _, _)
TextRunToNewline(inp, pk, run) ==
    Eager({ IF p.c = NoChar \/ p.c = LB \/ p.c = NL
            THEN [text |-> run, pos |-> p.pos, peeked |-> p.peeked]
            ELSE TextRunToNewline(inp, PkNext(inp, p),
                                  Append(run, PkNext(inp, p).c)) :
            p \in {PkPeek(inp, pk)} })

\* while let Some(peek) = self.iter.peek() { if '[' break; text.push(next) }
RECURSIVE TextRun(_, _, _)
TextRun(inp, pk, run) ==
    Eager({ IF p.c = NoChar \/ p.c = LB
            THEN [text |-> run, pos |-> p.pos, peeked |-> p.peeked]
            ELSE TextRun(inp, PkNext(inp, p), Append(run, PkNext(inp, p).c)) :
            p \in {PkPeek(inp, pk)} })

\* self.position.line += 1 on a u16: past u16::MAX the addition panics when
\* overflow checks are compiled in (ovf = "panic") and wraps otherwise
LineInc(line, ovf) ==
    IF line < U16Max THEN [fault |-> FALSE, line |-> line + 1]
    ELSE IF ovf = "panic" THEN [fault |-> TRUE, line |-> line]
    ELSE [fault |-> FALSE, line |-> 0]

\* TagArm that gives up the rest of the input when the tag is malformed
TagArmAbort(inp, pk, line) ==
    Eager({ Eager({ [pos |-> IF r.ok THEN b.pos ELSE InLen(inp), peeked |-> b.peeked,
                      line |-> line, fault |-> FALSE,
                      ret |-> IF r.ok
                              THEN [kind |-> "Tag", tag |-> r.tag]
                              ELSE [kind |-> "Err", line |-> line,
                                    err |-> r.err]] :
                    r \in {from_str(b.body)} }) :
            b \in {TakeBody(inp, pk, <<>>)} })

\* TagArm that reports a bracket without its ']' as an unknown tag
TagArmStrict(inp, pk, line) ==
    Eager({ Eager({ [pos |-> b.pos, peeked |-> b.peeked,
                      line |-> line, fault |-> FALSE,
                      ret |-> IF r.ok
                              THEN [kind |-> "Tag", tag |-> r.tag]
                              ELSE [kind |-> "Err", line |-> line,
                                    err |-> r.err]] :
                    r \in { IF b.pos > pk.pos /\ CharAt(inp, b.pos) = RB
                            THEN from_str(b.body)
                            ELSE [ok |-> FALSE,
                                  err |-> [kind |-> "UnknownTag",
                                           payload |-> <<LB>> \o b.body]] } }) :
            b \in {TakeBody(inp, pk, <<>>)} })

\* The arm  '[' => take_while.collect.parse::<Tag>().map_err(..).map(..)
TagArm(inp, pk, line) ==
    Eager({ Eager({ [pos |-> b.pos, peeked |-> b.peeked,
                      line |-> line, fault |-> FALSE,
                      ret |-> IF r.ok
                              THEN [kind |-> "Tag", tag |-> r.tag]
                              ELSE [kind |-> "Err", line |-> line,
                                    err |-> r.err]] :
                    r \in {from_str(b.body)} }) :
            b \in {TakeBody(inp, pk, <<>>)} })

\* TextArm whose run starts empty instead of with the character read
TextArmDropFirst(inp, pk, line, c) ==
    LET t == TextRun(inp, pk, <<>>)
    IN  [pos |-> t.pos, peeked |-> t.peeked, line |-> line, fault |-> FALSE,
         ret |-> [kind |-> "Text", text |-> t.text]]

\* The arm  c => { text run }
TextArm(inp, pk, line, c) ==
    LET t == TextRun(inp, pk, <<c>>)
    IN  [pos |-> t.pos, peeked |-> t.peeked, line |-> line, fault |-> FALSE,
         ret |-> [kind |-> "Text", text |-> t.text]]

\* TokenIter::next on the lexer state st = [pos, peeked, line]
next(inp, st, ovf) ==
    LET n == PkNext(inp, st)
        l == IF n.c = NL THEN LineInc(st.line, ovf)
                         ELSE [fault |-> FALSE, line |-> st.line]
    IN  IF n.c = NoChar
        THEN [pos |-> n.pos, peeked |-> n.peeked, line |-> st.line,
              fault |-> FALSE, ret |-> [kind |-> "None"]]
        ELSE IF l.fault
        THEN [pos |-> n.pos, peeked |-> n.peeked, line |-> st.line,
              fault |-> TRUE, ret |-> [kind |-> "Panic"]]
        ELSE IF n.c = LB THEN TagArm(inp, n, l.line)
        ELSE TextArm(inp, n, l.line, n.c)

\* new with a line counter that starts at 0
newLineZero == [pos |-> 0, peeked |-> "None", line |-> 0]

\* TokenIter::new
new == [pos |-> 0, peeked |-> "None", line |-> 1]

\* ------------------------------------------------------------------------
\* Inputs
\* ------------------------------------------------------------------------
\* bracket bodies tried by the sandwich inputs
Bodies ==
    { <<>>,
      <<"u", "s", "e", "r", ":", "5">>,
      <<"u", "s", "e", "r", ":", "0">>,
      <<"a", "r", "t", "i", "c", "l", "e", ":", "5">>,
      <<"a", "r", "t", "i", "c", "l", "e", ":", "0">>,
      <<"u", "s", "e", "r", ":", "1", "2">>,
      <<"u", "n", "k", "n", "o", "w", "n">>,
      <<"u", "n", "k", "n", "o", "w", "n", ":", "0">>,
      <<"u", "s", "e", "r", " ", ":", "5">>,
      <<"u", "s", "e", "r", ":", " ", "5">>,
      <<"u", "s", "e", "r", ":", NL, "5">>,
      <<"x", "x", "u", "s", "e", "r", ":", "5", "y", "y">>,
      <<"a", "r", "t", "i", "c", "l", "e", ":", "7", "u", "s", "e", "r", ":", "5">>,
      <<"u", "s", "e", "r", ":", "5", "a", "r", "t", "i", "c", "l", "e", ":", "7">>,
      <<"u", "s", "e", "r", ":", "0", "0", "7">>,
      <<"u", "s", "e", "r", ":", "1", "8", "4", "4", "6", "7", "4", "4", "0", "7", "3", "7", "0", "9", "5", "5", "1", "6", "1", "5">>,
      <<"u", "s", "e", "r", ":", "1", "8", "4", "4", "6", "7", "4", "4", "0", "7", "3", "7", "0", "9", "5", "5", "1", "6", "1", "6">>,
      <<"a", "r", "t", "i", "c", "l", "e", ":", "1", "8", "4", "4", "6", "7", "4", "4", "0", "7", "3", "7", "0", "9", "5", "5", "1", "6", "1", "6">>,
      <<"u", "s", "e", "r", ":", ArabicThree>>,
      <<"u", "s", "e", "r", ":", "5", ArabicThree>>,
      <<"a", "r", "t", "i", "c", "l", "e", ":", "7", "u", "s", "e", "r", ":", ArabicThree>>,
      <<"x", NL, "x">>,
      <<"u", "s", "e", "r", ":", "x">> }

\* text before and after the bracket of a sandwich input
Texts ==
    { <<>>,
      <<"x">>,
      <<NL>>,
      <<"x", NL, "x">>,
      <<"h", "e", "l", "l", "o", " ">>,
      <<RB, "x">> }

\* pieces that the free inputs concatenate
Atoms ==
    { <<LB>>,
      <<RB>>,
      <<NL>>,
      <<"x">>,
      <<"u", "s", "e", "r", ":">>,
      <<"a", "r", "t", "i", "c", "l", "e", ":">>,
      <<"5">>,
      <<LB, "u", "n", "k", "n", "o", "w", "n", RB>>,
      <<LB, "u", "s", "e", "r", ":", "5", RB>> }

\* an input made of one bracket between two texts; close is <<RB>> or <<>>
Sandwich(t1, body, close, t2) == t1 \o <<LB>> \o body \o close \o t2

SandwichInputs ==
    { Sandwich(t1, b, c, t2) :
        t1 \in Texts, b \in Bodies, c \in {<<RB>>, <<>>}, t2 \in Texts }

RECURSIVE Concat(_)
Concat(ss) == IF ss = <<>> THEN <<>> ELSE Head(ss) \o Concat(Tail(ss))

FreeInputs ==
    { Concat(ss) : ss \in UNION { [1..n -> Atoms] : n \in 1..MaxChunks } }

\* identifiers written into inputs: 0, 5, 12 and usize::MAX
TagIds == { <<0>>, <<5>>, <<1, 2>>, UsizeMax }

\* "[user:N]" (lit = UserLit) or "[article:N]" (lit = ArticleLit)
TagText(lit, id) == <<LB>> \o lit \o to_string(id) \o <<RB>>

\* text, then "[user:N]" or "[article:N]", then text
TagInputs ==
    { t1 \o TagText(lit, id) \o t2 :
        t1 \in Texts, lit \in {UserLit, ArticleLit}, id \in TagIds, t2 \in Texts }

Inputs == SandwichInputs \cup FreeInputs \cup TagInputs

\* blocks of the long inputs: every block starts a call with a newline
LongBlocks == { <<NL, LB, RB>>, <<NL, LB, "u", "s", "e", "r", ":", "5", RB>> }

\* ------------------------------------------------------------------------
\* State
\* ------------------------------------------------------------------------
VARIABLES
    input,      \* the block of the text the lexer borrows
    reps,       \* how many times the block is repeated in the text
    pos,        \* TokenIter.iter: characters pulled from Chars
    peeked,     \* TokenIter.iter: the Peekable's peeked slot
    line,       \* TokenIter.position.line
    ret,        \* what the latest call of next returned
    faulted,    \* a call panicked
    endCalls,   \* calls that returned None so far
    tracing,    \* whether out and spans are recorded
    out,        \* history: the items the calls returned, in order
    spans       \* history: for each item, the input indices its call took

vars == <<input, reps, pos, peeked, line, ret, faulted, endCalls, tracing,
          out, spans>>

Inp == [text |-> input, reps |-> reps]
St == [pos |-> pos, peeked |-> peeked, line |-> line]

InitLexer ==
    /\ pos = new.pos
    /\ peeked = new.peeked
    /\ line = new.line
    /\ ret = [kind |-> "NoCall"]
    /\ faulted = FALSE
    /\ endCalls = 0
    /\ out = <<>>
    /\ spans = <<>>

Init ==
    /\ input \in Inputs
    /\ reps = 1
    /\ tracing = TRUE
    /\ InitLexer

\* a text with u16::MAX newlines, each the first character of a call
InitLong ==
    /\ input \in LongBlocks
    /\ reps = U16Max
    /\ tracing = FALSE
    /\ InitLexer

\* One call of TokenIter::next.  A panicked lexer is not called again, and
\* the calls after the end of the input are capped.
CallNext ==
    /\ ~faulted
    /\ endCalls < MaxEndCalls
    /\ \E ovf \in {"panic", "wrap"} : \E r \in {next(Inp, St, ovf)} :
         LET item == r.ret.kind \in {"Text", "Tag", "Err"}
         IN  /\ pos' = r.pos
             /\ peeked' = r.peeked
             /\ line' = r.line
             /\ ret' = r.ret
             /\ faulted' = r.fault
             /\ endCalls' = IF r.ret.kind = "None" THEN endCalls + 1 ELSE endCalls
             /\ out' = IF tracing /\ item THEN Append(out, r.ret) ELSE out
             /\ spans' = IF tracing /\ item
                         THEN Append(spans, [from |-> Cursor(St) + 1,
                                             to |-> Cursor(r)])
                         ELSE spans
    /\ UNCHANGED <<input, reps, tracing>>

Next == CallNext

Spec == Init /\ [][Next]_vars

SpecLong == InitLong /\ [][Next]_vars

\* the inputs of the runs whose termination is checked
LiveInputs ==
    TagInputs \cup { a \o b \o c : a \in Atoms, b \in Atoms, c \in Texts }

InitLive ==
    /\ input \in LiveInputs
    /\ reps = 1
    /\ tracing = TRUE
    /\ InitLexer

\* the caller keeps calling next, as Iterator::collect does
SpecLive == InitLive /\ [][Next]_vars /\ WF_vars(CallNext)

\* ------------------------------------------------------------------------
\* Helpers of the properties
\* ------------------------------------------------------------------------
\* TokenIter::new(s).collect::<Vec<_>>() continued from lexer state st
RECURSIVE LexAll(_, _)
LexAll(inp, st) ==
    LET r == next(inp, st, "panic")
    IN  IF r.ret.kind \in {"None", "Panic"} THEN <<>>
        ELSE <<r.ret>> \o LexAll(inp, r)

Lex(s) == LexAll([text |-> s, reps |-> 1], new)

Suffix(i) == SubSeq(input, i, Len(input))

NewlinesIn(lo, hi) == Cardinality({ i \in lo..hi : input[i] = NL })

\* an item without the Position of its error
Strip(item) ==
    IF item.kind = "Err" THEN [kind |-> "Err", err |-> item.err] ELSE item

StripAll(items) == [i \in 1..Len(items) |-> Strip(items[i])]

IsPrefix(a, b) == Len(a) <= Len(b) /\ SubSeq(b, 1, Len(a)) = a

\* index of the first ']' after index from, or the end of the input
ClosePos(from) ==
    IF \E i \in (from + 1)..Len(input) : input[i] = RB
    THEN CHOOSE i \in (from + 1)..Len(input) :
             /\ input[i] = RB
             /\ \A j \in (from + 1)..(i - 1) : input[j] # RB
    ELSE Len(input)

Ended == ret.kind = "None"

TagItem(kind, id) == [kind |-> "Tag", tag |-> [kind |-> kind, id |-> id]]
TextItem(t) == [kind |-> "Text", text |-> t]
KindOf(lit) == IF lit = UserLit THEN "User" ELSE "Article"

\* ------------------------------------------------------------------------
\* C1 - Lexing "[user:N]" alone, N a representable identifier, yields exactly
\* one item, Ok(Tag(User(N))), then the end of the input; likewise
\* "[article:N]" yields Ok(Tag(Article(N))).
\* ------------------------------------------------------------------------
C1_TagAlone ==
    \A lit \in {UserLit, ArticleLit}, id \in TagIds :
        (tracing /\ input = TagText(lit, id)) =>
            IF ret.kind = "NoCall" THEN out = <<>>
            ELSE /\ out = <<TagItem(KindOf(lit), id)>>
                 /\ ret \in {TagItem(KindOf(lit), id), [kind |-> "None"]}

C1_Witness ==
    /\ input = TagText(ArticleLit, UsizeMax)
    /\ Ended
    /\ out = <<TagItem("Article", UsizeMax)>>

\* ------------------------------------------------------------------------
\* C2 - Lexing a newline followed by a terminated bracket whose body B matches
\* neither pattern yields exactly one item, the error
\* TagErr(line 2, UnknownTag("[B]")).
\* ------------------------------------------------------------------------
UnknownBodies == { b \in Bodies : ~from_str(b).ok /\ from_str(b).err.kind = "UnknownTag"
                                  /\ \A i \in 1..Len(b) : b[i] \notin {LB, RB} }

C2_OneErrorOnly ==
    \A b \in UnknownBodies :
        (tracing /\ input = <<NL, LB>> \o b \o <<RB>> /\ Ended) =>
            out = << [kind |-> "Err", line |-> 2,
                      err |-> [kind |-> "UnknownTag",
                               payload |-> <<LB>> \o b \o <<RB>>]] >>

\* ------------------------------------------------------------------------
\* C3 - After a call returns, line = 1 + the number of newline characters
\* among all the characters consumed so far, wherever the newline lay.
\* ------------------------------------------------------------------------
C3_LineCountsNewlines ==
    (tracing /\ ~faulted) => line = 1 + NewlinesIn(1, Cursor(St))

\* ------------------------------------------------------------------------
\* C4 - The Position of every returned TokenizeErr is the line on which the
\* offending '[' began: 1 + the number of newlines that precede that '['.
\* ------------------------------------------------------------------------
C4_ErrAtBracketLine ==
    tracing =>
        \A k \in 1..Len(out) :
            out[k].kind = "Err" =>
                out[k].line = 1 + NewlinesIn(1, spans[k].from - 1)

\* ------------------------------------------------------------------------
\* C5 - A malformed tag does not abort the traversal: its call leaves the
\* cursor just past the discarded ']' (or at the end of the input), and the
\* later calls return what a fresh lexer over the remaining suffix returns.
\* ------------------------------------------------------------------------
\* as the claim states it: the same tokens and the same errors
C5_ResumesLikeFresh ==
    tracing =>
        \A k \in 1..Len(out) :
            out[k].kind = "Err" =>
                /\ spans[k].to = ClosePos(spans[k].from)
                /\ LET rest == SubSeq(out, k + 1, Len(out))
                       fresh == Lex(Suffix(spans[k].to + 1))
                   IN  IF Ended THEN rest = fresh ELSE IsPrefix(rest, fresh)

\* as amended: the same tokens and the same TagParseErr of every error, the
\* Position of an error continuing the line counter of the running lexer
C5_ResumesLikeFreshModuloPosition ==
    tracing =>
        \A k \in 1..Len(out) :
            out[k].kind = "Err" =>
                /\ spans[k].to = ClosePos(spans[k].from)
                /\ LET rest == StripAll(SubSeq(out, k + 1, Len(out)))
                       fresh == StripAll(Lex(Suffix(spans[k].to + 1)))
                   IN  IF Ended THEN rest = fresh ELSE IsPrefix(rest, fresh)

C5_Witness ==
    /\ Ended
    /\ \E k \in 1..Len(out) :
          /\ out[k].kind = "Err"
          /\ out[k].line > 1
          /\ k + 2 <= Len(out)
          /\ out[k + 1].kind = "Err"
          /\ out[k + 2].kind = "Text"

\* ------------------------------------------------------------------------
\* C6 - Every call of next returns a Text token, a Tag token, a TokenizeErr or
\* the end-of-input signal; no call faults.
\* ------------------------------------------------------------------------
C6_NoFault ==
    /\ ~faulted
    /\ ret.kind \in {"NoCall", "Text", "Tag", "Err", "None"}

\* ------------------------------------------------------------------------
\* C7 - For non-empty T1 and T2 without '[' and a valid identifier N, lexing
\* T1 + "[user:N]" + T2 yields exactly Text(T1), Tag(User(N)), Text(T2).
\* ------------------------------------------------------------------------
NonEmptyTexts == { t \in Texts : t # <<>> /\ \A i \in 1..Len(t) : t[i] # LB }

C7_TextTagText ==
    \A t1 \in NonEmptyTexts, t2 \in NonEmptyTexts, id \in TagIds :
        (tracing /\ input = t1 \o TagText(UserLit, id) \o t2) =>
            LET all == <<TextItem(t1), TagItem("User", id), TextItem(t2)>>
            IN  IF Ended THEN out = all ELSE IsPrefix(out, all)

C7_Witness ==
    /\ input = <<"x", NL, "x">> \o TagText(UserLit, <<1, 2>>) \o <<RB, "x">>
    /\ Ended
    /\ out = <<TextItem(<<"x", NL, "x">>), TagItem("User", <<1, 2>>),
               TextItem(<<RB, "x">>)>>

\* ------------------------------------------------------------------------
\* C8 - An unterminated tag is not an error in itself: a '[' with no ']' after
\* it takes the whole remaining input as its body, the body is classified,
\* and the call after it returns the end of the input.
\* ------------------------------------------------------------------------
Unterminated(k) ==
    /\ input[spans[k].from] = LB
    /\ \A i \in (spans[k].from + 1)..Len(input) : input[i] # RB

ClassifiedAt(body, ln) ==
    IF from_str(body).ok
    THEN [kind |-> "Tag", tag |-> from_str(body).tag]
    ELSE [kind |-> "Err", line |-> ln, err |-> from_str(body).err]

C8_UnterminatedTag ==
    tracing =>
        \A k \in 1..Len(out) :
            Unterminated(k) =>
                /\ spans[k].to = Len(input)
                /\ out[k] = ClassifiedAt(Suffix(spans[k].from + 1), line)
                /\ Len(out) = k
                /\ ret \in {out[k], [kind |-> "None"]}

C8_Witness ==
    /\ Ended
    /\ Len(out) = 2
    /\ Unterminated(2)
    /\ out[2] = TagItem("User", <<5>>)

\* ------------------------------------------------------------------------
\* C9 - The end of the input is absorbing: once a call has returned the
\* end-of-input signal, every later call returns it too, emits nothing and
\* leaves the cursor and the line counter unchanged.
\* ------------------------------------------------------------------------
C9_EndAbsorbing ==
    [][ Ended => /\ ret'.kind = "None"
                 /\ out' = out
                 /\ pos' = pos
                 /\ peeked' = peeked
                 /\ line' = line ]_vars

C9_Witness ==
    /\ Ended
    /\ endCalls = MaxEndCalls
    /\ Len(out) >= 2

\* ------------------------------------------------------------------------
\* C10 - Every Text token a call returns holds a non-empty string.
\* ------------------------------------------------------------------------
C10_TextNonEmpty ==
    /\ ret.kind = "Text" => Len(ret.text) >= 1
    /\ \A k \in 1..Len(out) : out[k].kind = "Text" => Len(out[k].text) >= 1

C10_Witness ==
    /\ ret.kind = "Text"
    /\ Len(ret.text) = 1
    /\ Len(out) = 3
    /\ out[1].kind = "Tag"

\* ------------------------------------------------------------------------
\* Helpers of the properties about bracket bodies
\* ------------------------------------------------------------------------
\* item k was returned by a call that read '['
IsTagCall(k) == input[spans[k].from] = LB

\* the text between the '[' of item k and its ']' (or the end of the input)
BodyOf(k) ==
    SubSeq(input, spans[k].from + 1,
           IF input[spans[k].to] = RB THEN spans[k].to - 1 ELSE spans[k].to)

\* lit starts at index i of s, white space follows up to j, s[j] is a digit
PatternAt(lit, s, i, j) ==
    /\ i + Len(lit) <= j
    /\ j <= Len(s)
    /\ \A m \in 1..Len(lit) : s[i + m - 1] = lit[m]
    /\ \A m \in (i + Len(lit))..(j - 1) : IsWhitespace(s[m])
    /\ IsDigit(s[j])

HasPattern(lit, s) ==
    \E i \in 1..Len(s), j \in 1..Len(s) : PatternAt(lit, s, i, j)

\* the digit run of the leftmost place where the pattern of lit matches
DigitRun(lit, s) ==
    LET i == CHOOSE a \in 1..Len(s) :
                 /\ \E j \in 1..Len(s) : PatternAt(lit, s, a, j)
                 /\ \A b \in 1..(a - 1) :
                        ~\E j \in 1..Len(s) : PatternAt(lit, s, b, j)
        j == CHOOSE a \in 1..Len(s) : PatternAt(lit, s, i, a)
        e == CHOOSE a \in j..Len(s) :
                 /\ \A m \in j..a : IsDigit(s[m])
                 /\ a = Len(s) \/ ~IsDigit(s[a + 1])
    IN  SubSeq(s, j, e)

AllAscii(run) == \A m \in 1..Len(run) : to_digit(run[m]) >= 0

\* the number an ASCII digit run denotes, as a numeral
NumeralOf(run) ==
    IF \A m \in 1..Len(run) : run[m] = "0" THEN <<0>>
    ELSE LET z == CHOOSE a \in 1..Len(run) :
                      /\ run[a] # "0"
                      /\ \A m \in 1..(a - 1) : run[m] = "0"
         IN  [m \in 1..(Len(run) - z + 1) |-> to_digit(run[z + m - 1])]

Fits(run) == AllAscii(run) /\ ~NumGT(NumeralOf(run), UsizeMax)

IsParseErr(item) == item.kind = "Err" /\ item.err.kind = "CaptureParseErr"
IsUnknown(item) == item.kind = "Err" /\ item.err.kind = "UnknownTag"

\* ------------------------------------------------------------------------
\* C11 - Lexing an input that is one terminated bracket "[B]" without a
\* newline, B matching neither pattern, yields exactly one item: the error
\* TagErr(line 1, UnknownTag(P)) whose payload P is the whole input "[B]".
\* ------------------------------------------------------------------------
PlainUnknownBodies == { b \in UnknownBodies : \A i \in 1..Len(b) : b[i] # NL }

C11_UnknownAlone ==
    \A b \in PlainUnknownBodies :
        (tracing /\ input = <<LB>> \o b \o <<RB>>) =>
            LET e == [kind |-> "Err", line |-> 1,
                      err |-> [kind |-> "UnknownTag", payload |-> input]]
            IN  IF ret.kind = "NoCall" THEN out = <<>>
                ELSE out = <<e>> /\ ret \in {e, [kind |-> "None"]}

C11_Witness ==
    /\ input = <<LB, "u", "n", "k", "n", "o", "w", "n", ":", "0", RB>>
    /\ Ended
    /\ Len(out) = 1
    /\ IsUnknown(out[1])

\* ------------------------------------------------------------------------
\* C12 - The grammar accepts as a user tag any body that contains the literal
\* "user", optional white space, a colon and one or more digits (likewise
\* for "article"): such a body, e.g. "user :5", is never an UnknownTag.
\* ------------------------------------------------------------------------
\* word, white space up to the colon at c, a digit right after the colon
ClaimedAt(word, s, i, c) ==
    /\ i + Len(word) <= c
    /\ c + 1 <= Len(s)
    /\ \A m \in 1..Len(word) : s[i + m - 1] = word[m]
    /\ \A m \in (i + Len(word))..(c - 1) : IsWhitespace(s[m])
    /\ s[c] = ":"
    /\ IsDigit(s[c + 1])

HasClaimedPattern(word, s) ==
    \E i \in 1..Len(s), c \in 1..Len(s) : ClaimedAt(word, s, i, c)

UserWord == <<"u", "s", "e", "r">>
ArticleWord == <<"a", "r", "t", "i", "c", "l", "e">>

\* as the claim states it: white space between the word and the colon
C12_SpaceBeforeColon ==
    tracing =>
        \A k \in 1..Len(out) :
            ( /\ IsTagCall(k)
              /\ \/ HasClaimedPattern(UserWord, BodyOf(k))
                 \/ HasClaimedPattern(ArticleWord, BodyOf(k)) )
            => ~IsUnknown(out[k])

\* as amended: the colon directly after the word, white space after the colon
C12_SpaceAfterColon ==
    tracing =>
        \A k \in 1..Len(out) :
            IsTagCall(k) =>
                IF HasPattern(UserLit, BodyOf(k))
                THEN (out[k].kind = "Tag" /\ out[k].tag.kind = "User")
                     \/ IsParseErr(out[k])
                ELSE IF HasPattern(ArticleLit, BodyOf(k))
                THEN (out[k].kind = "Tag" /\ out[k].tag.kind = "Article")
                     \/ IsParseErr(out[k])
                ELSE IsUnknown(out[k])

C12_Witness ==
    \E k \in 1..Len(out) :
        /\ IsTagCall(k)
        /\ BodyOf(k) = <<"u", "s", "e", "r", ":", " ", "5">>
        /\ out[k] = TagItem("User", <<5>>)

\* ------------------------------------------------------------------------
\* C13 - Classification is order-first: when the user pattern matches a body,
\* the result is that of the user match alone (User(id), or the error of
\* parsing that id), also when a valid article reference comes earlier in
\* the body.
\* ------------------------------------------------------------------------
C13_UserFirst ==
    tracing =>
        \A k \in 1..Len(out) :
            (IsTagCall(k) /\ HasPattern(UserLit, BodyOf(k))) =>
                LET run == DigitRun(UserLit, BodyOf(k))
                IN  IF Fits(run)
                    THEN out[k] = TagItem("User", NumeralOf(run))
                    ELSE IsParseErr(out[k])

C13_Witness ==
    /\ Len(out) = 2
    /\ IsTagCall(2)
    /\ BodyOf(2) = <<"a", "r", "t", "i", "c", "l", "e", ":", "7",
                     "u", "s", "e", "r", ":", "5">>
    /\ out[2] = TagItem("User", <<5>>)

\* ------------------------------------------------------------------------
\* C14 - The identifier of a Tag token is the exact numeric value of the
\* captured digit run; a digit run beyond the identifier width gives the
\* error CaptureParseErr paired with the current Position, never a Tag with
\* a wrapped, truncated or clamped identifier.
\* ------------------------------------------------------------------------
MatchedLit(s) == IF HasPattern(UserLit, s) THEN UserLit ELSE ArticleLit

C14_ExactIdentifier ==
    /\ ret.kind = "Err" => ret.line = line
    /\ tracing =>
         \A k \in 1..Len(out) :
             ( /\ IsTagCall(k)
               /\ \/ HasPattern(UserLit, BodyOf(k))
                  \/ HasPattern(ArticleLit, BodyOf(k)) )
             => LET run == DigitRun(MatchedLit(BodyOf(k)), BodyOf(k))
                IN  /\ out[k].kind = "Tag" =>
                          /\ AllAscii(run)
                          /\ out[k].tag.id = NumeralOf(run)
                          /\ ~NumGT(out[k].tag.id, UsizeMax)
                    /\ (AllAscii(run) /\ NumGT(NumeralOf(run), UsizeMax)) =>
                          /\ IsParseErr(out[k])
                          /\ out[k].err.cause = "PosOverflow"

C14_Witness ==
    /\ ret.kind = "Err"
    /\ ret.line = 2
    /\ ret.err = [kind |-> "CaptureParseErr", cause |-> "PosOverflow"]
    /\ Len(out) = 2

\* ------------------------------------------------------------------------
\* C15 - The line number starts at 1 and never decreases or resets: for
\* every call, line after the call >= line before the call.
\* ------------------------------------------------------------------------
C15_LineNeverDecreases == [][line' >= line]_vars

\* ------------------------------------------------------------------------
\* C16 - The calls partition the input: every call that returns an item
\* takes one contiguous segment that begins where the previous call stopped;
\* a text call stops right before the next '[' and a tag call right after
\* the first ']' (or at the end of the input).
\* ------------------------------------------------------------------------
\* last index of the text run that starts at from
TextEnd(from) ==
    IF \E i \in (from + 1)..Len(input) : input[i] = LB
    THEN (CHOOSE i \in (from + 1)..Len(input) :
              /\ input[i] = LB
              /\ \A j \in (from + 1)..(i - 1) : input[j] # LB) - 1
    ELSE Len(input)

C16_CallsPartitionInput ==
    tracing =>
        /\ \A k \in 1..Len(spans) :
              /\ spans[k].from = IF k = 1 THEN 1 ELSE spans[k - 1].to + 1
              /\ spans[k].from <= spans[k].to
              /\ spans[k].to = IF IsTagCall(k) THEN ClosePos(spans[k].from)
                                               ELSE TextEnd(spans[k].from)
        /\ Cursor(St) = IF spans = <<>> THEN 0 ELSE spans[Len(spans)].to
        /\ Ended => Cursor(St) = Len(input)

C16_Witness ==
    /\ Ended
    /\ Len(spans) = 4
    /\ ~IsTagCall(1) /\ IsTagCall(2) /\ ~IsTagCall(3) /\ IsTagCall(4)
    /\ spans[3].to > spans[3].from

\* ------------------------------------------------------------------------
\* C17 - When a bracket body matches neither pattern, the payload of the
\* UnknownTag error is the body text as it appeared between the brackets,
\* for terminated and unterminated tags alike.
\* ------------------------------------------------------------------------
\* as the claim states it: the body and nothing else
C17_PayloadIsBody ==
    tracing =>
        \A k \in 1..Len(out) :
            IsUnknown(out[k]) => out[k].err.payload = BodyOf(k)

\* as amended: the body between a '[' and a ']' that from_str adds
C17_PayloadIsBracketedBody ==
    tracing =>
        \A k \in 1..Len(out) :
            IsUnknown(out[k]) =>
                out[k].err.payload = <<LB>> \o BodyOf(k) \o <<RB>>

C17_Witness ==
    \E k \in 1..Len(out) :
        /\ IsUnknown(out[k])
        /\ Unterminated(k)
        /\ Len(BodyOf(k)) >= 2
        /\ out[k].err.payload[Len(out[k].err.payload)] = RB

C19_TextRunsMaximal ==
    tracing =>
        \A k \in 1..Len(out) :
            out[k].kind = "Text" =>
                /\ \A i \in 1..Len(out[k].text) : out[k].text[i] # LB
                /\ k < Len(out) => out[k + 1].kind # "Text"

C19_Witness ==
    /\ Ended
    /\ Len(out) = 3
    /\ out[1].kind = "Text" /\ out[2].kind = "Err" /\ out[3].kind = "Text"
    /\ \E i \in 1..Len(out[3].text) : out[3].text[i] = NL

\* ------------------------------------------------------------------------
\* C20 - A call changes the line counter by at most 1 and only on account of
\* the first character it reads: the counter goes up by one if and only if
\* that character is a newline.
\* ------------------------------------------------------------------------
C20_LineFollowsFirstChar ==
    [][ line' = line + (IF PkNext(Inp, St).c = NL THEN 1 ELSE 0) ]_vars

====
